---------------------------- MODULE Spec2Model ----------------------------
(***************************************************************************)
(* Model of liteflow/ops.py: the width-fitting family (trim, pad, fit)     *)
(* and the masked softmax.  The operators are pure functions of their      *)
(* arguments; the state machine draws the arguments in Init and applies    *)
(* one operator per step.                                                  *)
(*                                                                         *)
(* A tensor is a record [shape, val]: shape is the sequence of extents and *)
(* val maps every index tuple (0-based, one component per axis) to the     *)
(* element stored there.  A failed TensorFlow op is the record             *)
(* [error |-> kind]; errors propagate through every op that consumes them. *)
(***************************************************************************)
EXTENDS Integers, Sequences, FiniteSets, Bags, TLC

(* ------------------------------ bounds --------------------------------- *)
MaxRank  == 4    \* tensors of rank 0..MaxRank
MaxDim   == 2    \* every extent is at most MaxDim
MaxElems == 4    \* a tensor holds at most MaxElems elements
MaxWidth == 3    \* target widths up to MaxWidth
MaxNeg   == 2    \* target widths down to -MaxNeg
MaxVal   == 2    \* elements of the width-fitting inputs are 1..MaxVal

(* --------------------------- tensors ----------------------------------- *)
Min(a, b) == IF a <= b THEN a ELSE b
Max(a, b) == IF a >= b THEN a ELSE b

RECURSIVE NumElems(_)
NumElems(s) == IF s = << >> THEN 1 ELSE Head(s) * NumElems(Tail(s))

RECURSIVE MaxExtent(_)
MaxExtent(s) ==
    IF s = << >> THEN 0
    ELSE LET m == MaxExtent(Tail(s)) IN IF Head(s) > m THEN Head(s) ELSE m

\* the index tuples of a tensor of shape s
IndexSet(s) ==
    {idx \in [DOMAIN s -> 0..MaxExtent(s)] : \A i \in DOMAIN s : idx[i] < s[i]}

Rank(tensor) == Len(tensor.shape)

Error(kind) == [error |-> kind]
IsError(r)  == "error" \in DOMAIN r
IsTensor(r) == "shape" \in DOMAIN r

\* tf.shape(tensor)[-1]; the callers reject rank 0, where the index is
\* out of range
LastDim(tensor) == tensor.shape[Len(tensor.shape)]

\* tf.slice(tensor, begin, size): begin and size must have one entry per
\* axis; a size of -1 takes everything from begin to the end of that axis;
\* any other size must satisfy 0 <= begin, 0 <= size, begin+size <= extent
tf_slice(tensor, begin, size) ==
    IF Len(begin) # Rank(tensor) \/ Len(size) # Rank(tensor)
    THEN Error("InvalidArgument")
    ELSE LET ext == [i \in DOMAIN size |->
                        IF size[i] = -1 THEN tensor.shape[i] - begin[i]
                        ELSE size[i]]
         IN IF \E i \in DOMAIN size :
                   \/ begin[i] < 0
                   \/ ext[i] < 0
                   \/ begin[i] + ext[i] > tensor.shape[i]
            THEN Error("InvalidArgument")
            ELSE [shape |-> ext,
                  val   |-> [idx \in IndexSet(ext) |->
                               tensor.val[[i \in DOMAIN idx |->
                                             idx[i] + begin[i]]]]]

\* tf.pad(tensor, paddings, "CONSTANT"): paddings has one <<before, after>>
\* pair per axis, both non-negative; the new elements are 0
tf_pad(tensor, paddings) ==
    IF Len(paddings) # Rank(tensor)
    THEN Error("InvalidArgument")
    ELSE IF \E i \in DOMAIN paddings : paddings[i][1] < 0 \/ paddings[i][2] < 0
    THEN Error("InvalidArgument")
    ELSE LET ext == [i \in DOMAIN paddings |->
                        paddings[i][1] + tensor.shape[i] + paddings[i][2]]
         IN [shape |-> ext,
             val   |-> [idx \in IndexSet(ext) |->
                          IF \A i \in DOMAIN idx :
                                /\ idx[i] >= paddings[i][1]
                                /\ idx[i] < paddings[i][1] + tensor.shape[i]
                          THEN tensor.val[[i \in DOMAIN idx |->
                                             idx[i] - paddings[i][1]]]
                          ELSE 0]]

(* ------------------------ width-fitting family ------------------------- *)
\* tf.cond(pred, f1, f2) runs only the branch that pred selects, so it is
\* IF pred THEN f1 ELSE f2; tf.shape(tensor)[-1] in the predicate fails for
\* a tensor of rank 0.
\* _trim with the slice starting at the second column
_trim_offset(tensor, width) ==
    LET begin == <<0, 0, 1>>
        size  == SubSeq(tensor.shape, 1, Min(2, Rank(tensor))) \o <<width>>
    IN tf_slice(tensor, begin, size)

_trim(tensor, width) ==
    LET begin == <<0, 0, 0>>
        size  == SubSeq(tensor.shape, 1, Min(2, Rank(tensor))) \o <<width>>
    IN tf_slice(tensor, begin, size)

trim(tensor, width) ==
    IF Rank(tensor) = 0 THEN Error("InvalidArgument")
    ELSE IF LastDim(tensor) <= width THEN tensor
    ELSE _trim(tensor, width)

\* _pad with the zeros in front of the elements
_pad_front(tensor, width) ==
    LET diff     == width - LastDim(tensor)
        paddings == <<<<0, 0>>, <<0, 0>>, <<diff, 0>>>>
    IN tf_pad(tensor, paddings)

\* _pad with one zero too many
_pad_wide(tensor, width) ==
    LET diff     == width - LastDim(tensor) + 1
        paddings == <<<<0, 0>>, <<0, 0>>, <<0, diff>>>>
    IN tf_pad(tensor, paddings)

_pad(tensor, width) ==
    LET diff     == width - LastDim(tensor)
        paddings == <<<<0, 0>>, <<0, 0>>, <<0, diff>>>>
    IN tf_pad(tensor, paddings)

pad(tensor, width) ==
    IF Rank(tensor) = 0 THEN Error("InvalidArgument")
    ELSE IF LastDim(tensor) >= width THEN tensor
    ELSE _pad(tensor, width)

\* _fit that leaves a narrower tensor as it is
_fit_no_pad(tensor, width) ==
    LET actual == LastDim(tensor)
    IN IF actual > width THEN _trim(tensor, width)
       ELSE tensor

_fit(tensor, width) ==
    LET actual == LastDim(tensor)
    IN IF actual > width THEN _trim(tensor, width)
       ELSE _pad(tensor, width)

\* fit that only ever trims
fit_trim_only(tensor, width) ==
    IF Rank(tensor) = 0 THEN Error("InvalidArgument")
    ELSE LET actual == LastDim(tensor)
         IN IF actual = width THEN tensor
            ELSE trim(tensor, width)

fit(tensor, width) ==
    IF Rank(tensor) = 0 THEN Error("InvalidArgument")
    ELSE LET actual == LastDim(tensor)
         IN IF actual = width THEN tensor
            ELSE _fit(tensor, width)


(* --------------------------- float values ------------------------------ *)
\* A float is NaN, +Inf, or a finite non-negative value.  A finite value is
\* kept exactly, as the quotient of two sums of powers of e: num and den
\* are bags of exponents, the bag {k1, k2} standing for e^k1 + e^k2 and the
\* empty bag for 0.  (e is transcendental, so two such sums are equal
\* exactly when the bags are.)  Only overflow and underflow of exp leave
\* the finite range; rounding of finite values is not modelled.
ExpMax == 88      \* exp(x) overflows to +Inf in float32 for x > ExpMax
ExpMin == -103    \* exp(x) underflows to 0.0 in float32 for x < ExpMin

One       == SetToBag({0})
Fin(n, d) == [t |-> "fin", num |-> n, den |-> d]
FZero     == Fin(EmptyBag, One)
FNaN      == [t |-> "nan", num |-> EmptyBag, den |-> EmptyBag]
FInf      == [t |-> "inf", num |-> EmptyBag, den |-> EmptyBag]

\* exp of one element
FExp(x) ==
    IF x > ExpMax THEN FInf
    ELSE IF x < ExpMin THEN FZero
    ELSE Fin(SetToBag({x}), One)

\* x * m for a mask element m in {0, 1}: Inf * 0.0 is NaN
FMul(x, m) ==
    IF x.t = "nan" THEN FNaN
    ELSE IF m = 1 THEN x
    ELSE IF x.t = "inf" THEN FNaN
    ELSE FZero

\* x + y for values that are not quotients
FAdd(x, y) ==
    IF x.t = "nan" \/ y.t = "nan" THEN FNaN
    ELSE IF x.t = "inf" \/ y.t = "inf" THEN FInf
    ELSE Fin(x.num (+) y.num, One)

\* x / s for values that are not quotients: 0/0 and Inf/Inf are NaN,
\* x/0 is Inf, x/Inf is 0
FDiv(x, s) ==
    IF x.t = "nan" \/ s.t = "nan" THEN FNaN
    ELSE IF x.t = "inf" THEN (IF s.t = "inf" THEN FNaN ELSE FInf)
    ELSE IF s.t = "inf" THEN FZero
    ELSE IF s.num = EmptyBag THEN (IF x.num = EmptyBag THEN FNaN ELSE FInf)
    ELSE IF x.num = EmptyBag THEN FZero
    ELSE Fin(x.num, s.num)

(* ------------------------ elementwise tensor ops ----------------------- *)
\* extent of axis i (of r) of a shape s aligned to the right
Aligned(s, r, i) == IF i > r - Len(s) THEN s[i - (r - Len(s))] ELSE 1

Broadcastable(s1, s2) ==
    LET r == IF Len(s1) >= Len(s2) THEN Len(s1) ELSE Len(s2)
    IN \A i \in 1..r :
          \/ Aligned(s1, r, i) = Aligned(s2, r, i)
          \/ Aligned(s1, r, i) = 1
          \/ Aligned(s2, r, i) = 1

BroadcastShape(s1, s2) ==
    LET r == IF Len(s1) >= Len(s2) THEN Len(s1) ELSE Len(s2)
    IN [i \in 1..r |-> IF Aligned(s1, r, i) = 1 THEN Aligned(s2, r, i)
                       ELSE Aligned(s1, r, i)]

\* the index into a tensor of shape s that the index idx of the broadcast
\* result reads
BIndex(idx, s) ==
    [i \in DOMAIN s |-> IF s[i] = 1 THEN 0 ELSE idx[i + Len(idx) - Len(s)]]

\* exps * mask on tensors: the shapes are broadcast against each other and
\* shapes that cannot be broadcast are an error
tf_multiply(a, b) ==
    IF IsError(a) THEN a
    ELSE IF IsError(b) THEN b
    ELSE IF ~Broadcastable(a.shape, b.shape) THEN Error("InvalidArgument")
    ELSE LET s == BroadcastShape(a.shape, b.shape)
         IN [shape |-> s,
             val   |-> [idx \in IndexSet(s) |->
                          FMul(a.val[BIndex(idx, a.shape)],
                               b.val[BIndex(idx, b.shape)])]]

\* masked / sums on tensors, broadcast in the same way
tf_divide(a, b) ==
    IF IsError(a) THEN a
    ELSE IF IsError(b) THEN b
    ELSE IF ~Broadcastable(a.shape, b.shape) THEN Error("InvalidArgument")
    ELSE LET s == BroadcastShape(a.shape, b.shape)
         IN [shape |-> s,
             val   |-> [idx \in IndexSet(s) |->
                          FDiv(a.val[BIndex(idx, a.shape)],
                               b.val[BIndex(idx, b.shape)])]]

\* tf.exp(logits), elementwise
tf_exp(t) ==
    [shape |-> t.shape, val |-> [idx \in IndexSet(t.shape) |-> FExp(t.val[idx])]]

\* the sum of the first n elements of the last-axis slice through idx
RECURSIVE RowSum(_, _, _)
RowSum(t, idx, n) ==
    IF n = 0 THEN FZero
    ELSE FAdd(RowSum(t, idx, n - 1),
              t.val[[idx EXCEPT ![Len(idx)] = n - 1]])

\* tf.reduce_sum(t, axis=-1, keep_dims=True)
reduce_sum(t) ==
    IF IsError(t) THEN t
    ELSE IF Rank(t) = 0 THEN Error("InvalidArgument")
    ELSE LET s == [t.shape EXCEPT ![Len(t.shape)] = 1]
         IN [shape |-> s,
             val   |-> [idx \in IndexSet(s) |-> RowSum(t, idx, LastDim(t))]]

\* the largest of the first n elements of the last-axis slice through idx
RECURSIVE RowMax(_, _, _)
RowMax(t, idx, n) ==
    LET x == t.val[[idx EXCEPT ![Len(idx)] = n - 1]]
    IN IF n = 1 THEN x
       ELSE LET m == RowMax(t, idx, n - 1) IN IF x > m THEN x ELSE m

\* tf.nn.softmax(logits, dim=-1): the kernel subtracts the maximum of each
\* last-axis slice before it exponentiates
tf_nn_softmax(t) ==
    IF Rank(t) = 0 THEN Error("InvalidArgument")
    ELSE LET shifted == [shape |-> t.shape,
                         val   |-> [idx \in IndexSet(t.shape) |->
                                      t.val[idx] - RowMax(t, idx, LastDim(t))]]
             exps    == tf_exp(shifted)
         IN tf_divide(exps, reduce_sum(exps))

(* ---------------------------- masked softmax --------------------------- *)
NoMask == [none |-> TRUE]

\* the intermediate values of the masked branch
masked_exps(lgts, msk) == tf_multiply(tf_exp(lgts), msk)
masked_sums(lgts, msk) == reduce_sum(masked_exps(lgts, msk))

softmax(lgts, msk) ==
    IF msk = NoMask THEN tf_nn_softmax(lgts)
    ELSE LET masked == masked_exps(lgts, msk)
             sums   == masked_sums(lgts, msk)
         IN tf_divide(masked, sums)

(* ------------------------------ inputs --------------------------------- *)
Vals   == 1..MaxVal
Widths == (0 - MaxNeg)..MaxWidth

\* shapes of rank 0..MaxRank; only the last axis may be empty
Shapes ==
    UNION {{s \in [1..r -> 0..MaxDim] :
               /\ \A i \in 1..(r - 1) : s[i] >= 1
               /\ NumElems(s) <= MaxElems} : r \in 0..MaxRank}

TensorsOf(s, E) == {[shape |-> s, val |-> v] : v \in [IndexSet(s) -> E]}

FitTensors == UNION {TensorsOf(s, Vals) : s \in Shapes}

\* logits of rank 1 or 2 without empty axes; the element values are one
\* logit whose exp underflows, two in the finite range, one whose exp
\* overflows
LogitRanks   == {1, 2}
LogitVals    == {ExpMin - 1, 0, 1, ExpMax + 1}
LogitShapes  == {s \in Shapes : Len(s) \in LogitRanks /\ \A i \in DOMAIN s : s[i] >= 1}
LogitTensors == UNION {TensorsOf(s, LogitVals) : s \in LogitShapes}

\* masks of 0/1 of rank 0, 1 or 2: of the shape of the logits or of
\* any other shape
MaskShapes == {s \in Shapes : Len(s) \in LogitRanks \cup {0} /\ \A i \in DOMAIN s : s[i] >= 1}
Masks      == {NoMask} \cup UNION {TensorsOf(s, {0, 1}) : s \in MaskShapes}

NoResult == [none |-> TRUE]
NoTensor == [shape |-> << >>, val |-> << >>]

(* --------------------------- state machine ----------------------------- *)
VARIABLES pc, tensor, width, logits, mask, result, prev

vars == <<pc, tensor, width, logits, mask, result, prev>>

\* a call of the width-fitting family
InitFit ==
    /\ tensor \in FitTensors
    /\ width \in Widths
    /\ logits = NoTensor
    /\ mask = NoMask
    /\ pc = "start"

\* a call of softmax
InitSoftmax ==
    /\ logits \in LogitTensors
    /\ mask \in Masks
    /\ tensor = NoTensor
    /\ width = 0
    /\ pc = "start_softmax"

Init ==
    /\ (InitFit \/ InitSoftmax)
    /\ result = NoResult
    /\ prev = NoResult

Trim ==
    /\ pc = "start"
    /\ result' = trim(tensor, width)
    /\ pc' = "trim"
    /\ UNCHANGED <<tensor, width, logits, mask, prev>>

Pad ==
    /\ pc = "start"
    /\ result' = pad(tensor, width)
    /\ pc' = "pad"
    /\ UNCHANGED <<tensor, width, logits, mask, prev>>

Fit ==
    /\ pc = "start"
    /\ result' = fit(tensor, width)
    /\ pc' = "fit"
    /\ UNCHANGED <<tensor, width, logits, mask, prev>>

\* fit applied again, with the same width, to the tensor a fit returned
Refit ==
    /\ pc = "fit"
    /\ IsTensor(result)
    /\ prev' = result
    /\ result' = fit(result, width)
    /\ pc' = "refit"
    /\ UNCHANGED <<tensor, width, logits, mask>>

Softmax ==
    /\ pc = "start_softmax"
    /\ result' = softmax(logits, mask)
    /\ pc' = "softmax"
    /\ UNCHANGED <<tensor, width, logits, mask, prev>>

Next == Trim \/ Pad \/ Fit \/ Refit \/ Softmax

Spec == Init /\ [][Next]_vars


(* ---------------------- width-fitting properties ----------------------- *)
\* a call of the width-fitting family within its contract: a 3D tensor and
\* a non-negative target width
InContract == Rank(tensor) = 3 /\ width >= 0

\* the tensor of the given shape that agrees with t wherever t has an
\* element and is 0 elsewhere
Restricted(t, s) ==
    [shape |-> s,
     val   |-> [idx \in IndexSet(s) |->
                  IF idx \in DOMAIN t.val THEN t.val[idx] ELSE 0]]

\* C1: fit of a 3D tensor to a non-negative width returns a tensor whose
\* last axis has exactly that width, on each of the three branches.
FitWidthExact ==
    (pc = "fit" /\ InContract) =>
        /\ IsTensor(result)
        /\ Rank(result) = 3
        /\ LastDim(result) = width

\* the padding branch of fit was taken and produced the target width
FitWidthExactWitness ==
    /\ pc = "fit" /\ InContract
    /\ LastDim(tensor) < width
    /\ IsTensor(result) /\ LastDim(result) = width

\* C2: trim of a 3D tensor returns it unchanged when its width is at most
\* the target, and otherwise the tensor of shape [b, l, width] holding the
\* first width elements of every last-axis slice; the resulting width is
\* min(w, width).
TrimCorrect ==
    (pc = "trim" /\ InContract) =>
        /\ IsTensor(result)
        /\ LastDim(tensor) <= width => result = tensor
        /\ LastDim(tensor) > width =>
              /\ result.shape = <<tensor.shape[1], tensor.shape[2], width>>
              /\ DOMAIN result.val = IndexSet(result.shape)
              /\ \A idx \in IndexSet(result.shape) :
                    result.val[idx] = tensor.val[idx]
        /\ LastDim(result) = Min(LastDim(tensor), width)

\* a tensor with more than one column was trimmed to a narrower, non-empty one
TrimCorrectWitness ==
    /\ pc = "trim" /\ InContract
    /\ width >= 1 /\ LastDim(tensor) > width
    /\ IsTensor(result) /\ LastDim(result) = width

\* C3: pad of a 3D tensor returns it unchanged when its width is at least
\* the target, and otherwise the tensor of shape [b, l, width] whose first
\* w elements of every last-axis slice are the original ones and whose
\* other elements are 0; the resulting width is max(w, width).
PadCorrect ==
    (pc = "pad" /\ InContract) =>
        /\ IsTensor(result)
        /\ LastDim(tensor) >= width => result = tensor
        /\ LastDim(tensor) < width =>
              /\ result.shape = <<tensor.shape[1], tensor.shape[2], width>>
              /\ DOMAIN result.val = IndexSet(result.shape)
              /\ \A idx \in IndexSet(result.shape) :
                    /\ idx[3] < LastDim(tensor) =>
                          result.val[idx] = tensor.val[idx]
                    /\ idx[3] >= LastDim(tensor) => result.val[idx] = 0
        /\ LastDim(result) = Max(LastDim(tensor), width)

\* a non-empty tensor was padded to a wider one
PadCorrectWitness ==
    /\ pc = "pad" /\ InContract
    /\ LastDim(tensor) >= 1 /\ LastDim(tensor) < width
    /\ IsTensor(result) /\ LastDim(result) = width

\* C4: fit is the three-way dispatch: the tensor itself when the widths are
\* equal, trim when the tensor is wider and pad when it is narrower.
FitDispatch ==
    (pc = "fit" /\ InContract) =>
        /\ LastDim(tensor) = width => result = tensor
        /\ LastDim(tensor) > width => result = trim(tensor, width)
        /\ LastDim(tensor) < width => result = pad(tensor, width)

\* the trimming branch of fit was taken
FitDispatchWitness ==
    /\ pc = "fit" /\ InContract
    /\ LastDim(tensor) > width
    /\ result = Restricted(tensor, <<tensor.shape[1], tensor.shape[2], width>>)

\* C5: fit applied again with the same width returns what the first fit
\* returned, through the equal-width branch.
FitIdempotent ==
    (pc = "refit" /\ InContract) =>
        /\ result = prev
        /\ LastDim(prev) = width

\* a fit that resized the tensor was applied a second time
FitIdempotentWitness ==
    /\ pc = "refit" /\ InContract
    /\ LastDim(tensor) # width
    /\ prev # tensor /\ result = prev

\* C7: a negative target width makes trim, pad and fit of a 3D tensor fail
\* with an error instead of returning a tensor.
NegativeWidthRejected ==
    (pc \in {"trim", "pad", "fit"} /\ Rank(tensor) = 3 /\ width < 0) =>
        IsError(result)

\* C8: a tensor whose rank is not 3 makes trim, pad and fit fail with an
\* error on every branch, the no-op branches included.
RankRejected ==
    (pc \in {"trim", "pad", "fit"} /\ Rank(tensor) # 3 /\ width >= 0) =>
        IsError(result)

(* --------------------------- softmax properties ------------------------ *)
\* a call of softmax with a mask of the shape of the logits
MaskedCall == pc = "softmax" /\ mask # NoMask /\ mask.shape = logits.shape

\* the index tuples that start the last-axis slices (rows) of a shape
Rows(s) == {idx \in IndexSet(s) : idx[Len(s)] = 0}

\* the k-th position of the row that starts at r
At(r, k) == [r EXCEPT ![Len(r)] = k]

Cols(s) == 0..(s[Len(s)] - 1)

Unmasked(r) == {k \in Cols(logits.shape) : mask.val[At(r, k)] = 1}

\* the bag of the logits at the positions ks of row r: the real number
\* that is the sum of exp(logit) over these positions
RECURSIVE ExpSum(_, _)
ExpSum(r, ks) ==
    IF ks = {} THEN EmptyBag
    ELSE LET k == CHOOSE k \in ks : TRUE
         IN SetToBag({logits.val[At(r, k)]}) (+) ExpSum(r, ks \ {k})

\* the sum of the numerators of the result at the positions ks of row r
RECURSIVE NumSum(_, _)
NumSum(r, ks) ==
    IF ks = {} THEN EmptyBag
    ELSE LET k == CHOOSE k \in ks : TRUE
         IN result.val[At(r, k)].num (+) NumSum(r, ks \ {k})

\* row r of the result is the masked softmax of row r of the logits, in
\* real arithmetic:
\* masked positions are 0, unmasked ones are exp(logit) over the sum of
\* the unmasked exp(logit), and the unmasked ones sum to 1 (their
\* numerators add up to their common denominator)
RowNormalised(r) ==
    /\ \A k \in Cols(logits.shape) \ Unmasked(r) :
          result.val[At(r, k)] = FZero
    /\ \A k \in Unmasked(r) :
          result.val[At(r, k)] =
              Fin(SetToBag({logits.val[At(r, k)]}), ExpSum(r, Unmasked(r)))
    /\ \A k \in Unmasked(r) :
          result.val[At(r, k)].den = NumSum(r, Unmasked(r))

\* C6: with a mask of the shape of the logits, in every row that has an
\* unmasked position the masked positions are exactly 0 and each unmasked
\* position is exp(logit) over the sum of exp(logit) of the unmasked
\* positions of the row, so that the unmasked positions sum to 1.
MaskedSoftmaxCorrect ==
    MaskedCall =>
        /\ IsTensor(result)
        /\ result.shape = logits.shape
        /\ \A r \in Rows(logits.shape) :
              Unmasked(r) # {} => RowNormalised(r)

\* C9: a mask whose shape differs from the shape of the logits makes
\* softmax fail with an error instead of returning a tensor.
MaskShapeRejected ==
    (pc = "softmax" /\ mask # NoMask /\ mask.shape # logits.shape) =>
        IsError(result)

\* row r alone, as a tensor of rank 1
RowOf(t, r) ==
    [shape |-> <<LastDim(t)>>,
     val   |-> [idx \in IndexSet(<<LastDim(t)>>) |-> t.val[At(r, idx[1])]]]

\* C10: with a mask of the shape of the logits in which some row is all 0,
\* no error is raised; the sum of such a row is 0 and every position of it
\* is non-finite; every row that has an unmasked position is what softmax
\* returns for that row alone.
ZeroMaskRowNonFinite ==
    (MaskedCall /\ \E r \in Rows(logits.shape) : Unmasked(r) = {}) =>
        /\ IsTensor(result)
        /\ result.shape = logits.shape
        /\ \A r \in Rows(logits.shape) :
              /\ Unmasked(r) = {} =>
                    /\ masked_sums(logits, mask).val[r] = FZero
                    /\ \A k \in Cols(logits.shape) :
                          result.val[At(r, k)].t \in {"nan", "inf"}
              /\ Unmasked(r) # {} =>
                    RowOf(result, r) =
                        softmax(RowOf(logits, r), RowOf(mask, r))

=============================================================================
